---------------------------- MODULE Spec2Model ----------------------------
(***************************************************************************)
(* A model of space.py ("Cosmic Calculator: Mission to Moon"): the session *)
(* state of SpaceMathGame, one action per pass of the main loop's frame    *)
(* body, one for the SPACE key handler, and Player.calculate as an         *)
(* operator.  Drawing, fonts and the star field have no effect on the      *)
(* session and are left out.                                               *)
(*                                                                         *)
(* Numbers.  Scores, timers and rectangle coordinates are integers, as in  *)
(* the code (pygame.Rect stores ints).  The scroll speeds are floats in    *)
(* the code; here a speed is an integer number of 1/Scale units, which     *)
(* represents every value the code can produce exactly (5 x 1.2^k for      *)
(* k <= 7, their halves, 12 and 18).                                       *)
(***************************************************************************)
EXTENDS Integers, Sequences, FiniteSets, TLC

(* ------------------------- 1. configuration --------------------------- *)
WIDTH == 1000
HEIGHT == 700
PLAYER_SPEED == 9
BASE_SCROLL_SPEED == 5
BASE_CLOUD_FREQ == 160
POWERUP_FREQUENCY == 600
TARGET_NUMBER == 50

\* Literals of the code that have no name there.
PLAYER_X == 100
PLAYER_W == 100
PLAYER_H == 60
CLOUD_W == 180
CLOUD_H == 120
CLOUD_AMPLITUDE == 40
POWERUP_SIZE == 40
MAX_SPEED == 18
RAPID_SPEED == 12
RAPID_FREQ == 40
SLOW_FRAMES == 600
EFFECT_FRAMES == 300
TRANSITION_SPEED == 10
LANDER_START_Y == -100
LANDER_STEP == 3
WALK_STEP == 2

Scale == 10 ^ 6

Operations == {"ADD", "SUBTRACT", "MULTIPLY", "DIVIDE"}
PowerUpTypes == {"SLOW_MOTION", "ROUND_NUM", "GHOST", "INVERT_CONTROLS", "RAPID_FIRE"}
GameStates == {"PLAYING", "TRANSITION_TO_LANDING", "LANDING_SCENE", "GAME_OVER"}

(* ------------------------------ helpers ------------------------------- *)
\* int(a / b) for b > 0: the quotient truncated toward zero, which is how
\* pygame stores a float assigned to a Rect coordinate.
TruncDiv(a, b) == IF a >= 0 THEN a \div b ELSE -((-a) \div b)

\* A rounding that takes an exact half up, as int(res + 0.5) would.
RoundHalfUp(n, d) ==
    LET q == n \div d
        r == n % d
    IN  IF 2 * r < d THEN q ELSE q + 1

\* Python's round() of the rational n / d (n >= 0, d > 0): to the nearest
\* integer, an exact half to the even neighbour.
RoundHalfEven(n, d) ==
    LET q == n \div d
        r == n % d
    IN  IF 2 * r < d THEN q
        ELSE IF 2 * r > d THEN q + 1
        ELSE IF q % 2 = 0 THEN q ELSE q + 1

\* Player.calculate returning True also when the result was clamped to 0.
CalculateClampPenalty(score, op, val) ==
    IF op = "DIVIDE" /\ val = 0 THEN [score |-> score, penalty |-> FALSE]
    ELSE
      LET n0 == CASE op = "ADD" -> score + val
                  [] op = "SUBTRACT" -> score - val
                  [] op = "MULTIPLY" -> score * val
                  [] op = "DIVIDE" -> IF val > 0 THEN score ELSE -score
                  [] OTHER -> score
          d == IF op = "DIVIDE" THEN (IF val > 0 THEN val ELSE -val) ELSE 1
          n == IF n0 < 0 THEN 0 ELSE n0
      IN  [score |-> RoundHalfEven(n, d), penalty |-> (n % d # 0 \/ n0 < 0)]

\* Player.calculate without the line `if res < 0: res = 0`.
CalculateNoClamp(score, op, val) ==
    IF op = "DIVIDE" /\ val = 0 THEN [score |-> score, penalty |-> FALSE]
    ELSE
      LET n == CASE op = "ADD" -> score + val
                 [] op = "SUBTRACT" -> score - val
                 [] op = "MULTIPLY" -> score * val
                 [] OTHER -> score
          d == IF op = "DIVIDE" THEN val ELSE 1
      IN  IF n < 0 THEN [score |-> n, penalty |-> FALSE]
          ELSE [score |-> RoundHalfEven(n, d), penalty |-> (n % d # 0)]

\* Player.calculate with a zero divisor falling through to the rounding with
\* res = 0 instead of returning.
CalculateZeroResets(score, op, val) ==
    IF op = "DIVIDE" /\ val = 0 THEN [score |-> 0, penalty |-> FALSE]
    ELSE
      LET n0 == CASE op = "ADD" -> score + val
                  [] op = "SUBTRACT" -> score - val
                  [] op = "MULTIPLY" -> score * val
                  [] OTHER -> score
          d == IF op = "DIVIDE" THEN val ELSE 1
          n == IF n0 < 0 THEN 0 ELSE n0
      IN  [score |-> RoundHalfEven(n, d), penalty |-> (n % d # 0)]

\* Player.calculate: the new score and the value returned.  The float
\* `res` is the rational n / d.
Calculate(score, op, val) ==
    IF op = "DIVIDE" /\ val = 0 THEN [score |-> score, penalty |-> FALSE]
    ELSE
      LET n0 == CASE op = "ADD" -> score + val
                  [] op = "SUBTRACT" -> score - val
                  [] op = "MULTIPLY" -> score * val
                  [] op = "DIVIDE" -> IF val > 0 THEN score ELSE -score
                  [] OTHER -> score
          d == IF op = "DIVIDE" THEN (IF val > 0 THEN val ELSE -val) ELSE 1
          n == IF n0 < 0 THEN 0 ELSE n0
      IN  [score |-> RoundHalfEven(n, d), penalty |-> (n % d # 0)]

(* --------------------------- 2. the session --------------------------- *)
VARIABLES
    state,                    \* self.state
    player,                   \* self.player: rect.x, rect.y, score, figure_x
    clouds,                   \* self.clouds, in list order
    powerups,                 \* self.powerups, in list order
    timer_spawn_cloud,
    timer_spawn_powerup,
    current_difficulty_speed, \* in 1/Scale units
    timer_slow_motion,
    timer_ghost_mode,
    timer_inverted,
    timer_rapid_fire,
    lander_y,
    fault,                    \* an exception has left run(): the process is gone
    frames,                   \* PLAYING frames run since the session was (re)built
    log                       \* what the last step did (history, read by no action)

vars == <<state, player, clouds, powerups, timer_spawn_cloud, timer_spawn_powerup,
          current_difficulty_speed, timer_slow_motion, timer_ghost_mode,
          timer_inverted, timer_rapid_fire, lander_y, fault, frames, log>>

\* The session as one record, for the operators below.
Session ==
    [state |-> state, player |-> player, clouds |-> clouds, powerups |-> powerups,
     timer_spawn_cloud |-> timer_spawn_cloud,
     timer_spawn_powerup |-> timer_spawn_powerup,
     current_difficulty_speed |-> current_difficulty_speed,
     timer_slow_motion |-> timer_slow_motion, timer_ghost_mode |-> timer_ghost_mode,
     timer_inverted |-> timer_inverted, timer_rapid_fire |-> timer_rapid_fire,
     lander_y |-> lander_y, fault |-> fault]

\* Player.__init__
NewPlayer == [x |-> PLAYER_X, y |-> HEIGHT \div 2, score |-> 0, figure_x |-> 0]

\* pygame.Rect.colliderect on (x, y, w, h): a strict overlap on both axes.
CollideRect(ax, ay, aw, ah, bx, by, bw, bh) ==
    /\ ax < bx + bw
    /\ ay < by + bh
    /\ ax + aw > bx
    /\ ay + ah > by

\* rect.x -= speed: the float difference stored back into the int rect.x.
ScrollX(x, speed) == TruncDiv(x * Scale - speed, Scale)

\* The operations spawn_cloud_wall draws from at a given score.
WallOps(score) ==
    {"ADD", "SUBTRACT", "MULTIPLY"} \cup (IF score > 10 THEN {"DIVIDE"} ELSE {})

\* The operand ranges of spawn_cloud_wall: randint(1, 9), MULTIPLY randint(2, 4).
WallVals(op) == IF op = "MULTIPLY" THEN 2 .. 4 ELSE 1 .. 9

\* spawn_cloud_wall: the three clouds appended, `draw` being the three
\* (op, val) pairs the random generator gave.
LaneY(i) == i * (HEIGHT \div 3) + ((HEIGHT \div 3) \div 2) - 60

WallClouds(draw, x_offset) ==
    [i \in 1 .. 3 |->
        [x |-> WIDTH + 100 + x_offset, oy |-> LaneY(i - 1),
         op |-> draw[i].op, val |-> draw[i].val]]

\* reset_game: the session it builds.
ResetGame(draw) ==
    [state |-> "PLAYING", player |-> NewPlayer,
     clouds |-> WallClouds(draw, 200), powerups |-> << >>,
     timer_spawn_cloud |-> 0, timer_spawn_powerup |-> 0,
     current_difficulty_speed |-> BASE_SCROLL_SPEED * Scale,
     timer_slow_motion |-> 0, timer_ghost_mode |-> 0,
     timer_inverted |-> 0, timer_rapid_fire |-> 0,
     lander_y |-> LANDER_START_Y, fault |-> FALSE]

\* spawn_powerup with one probability table, whatever the speed.
PowerUpTypeOneTable(speed, roll) ==
    IF roll < 25 THEN "SLOW_MOTION"
    ELSE IF roll < 50 THEN "ROUND_NUM"
    ELSE IF roll < 70 THEN "GHOST"
    ELSE IF roll < 90 THEN "INVERT_CONTROLS"
    ELSE "RAPID_FIRE"

\* spawn_powerup: the type selected at a difficulty speed by the roll
\* random.random(), given in hundredths (0 .. 99).
PowerUpType(speed, roll) ==
    IF 2 * speed > 3 * BASE_SCROLL_SPEED * Scale
    THEN IF roll < 50 THEN "ROUND_NUM"
         ELSE IF roll < 70 THEN "SLOW_MOTION"
         ELSE IF roll < 85 THEN "GHOST"
         ELSE "INVERT_CONTROLS"
    ELSE IF roll < 25 THEN "SLOW_MOTION"
         ELSE IF roll < 50 THEN "ROUND_NUM"
         ELSE IF roll < 70 THEN "GHOST"
         ELSE IF roll < 90 THEN "INVERT_CONTROLS"
         ELSE "RAPID_FIRE"

\* spawn_powerup: the power-up appended.
NewPowerUp(speed, roll, y) ==
    [x |-> WIDTH + 50, y |-> y, type |-> PowerUpType(speed, roll)]

\* The movement with the inverted branch keeping the tests of the plain one:
\* UP tested against the top edge and DOWN against the bottom edge.
MovePlayerTestsKept(s, up, down) ==
    LET y == s.player.y
    IN  IF s.timer_inverted > 0
        THEN LET y1 == IF up /\ y > 0 THEN y + PLAYER_SPEED ELSE y
             IN  IF down /\ y1 + PLAYER_H < HEIGHT THEN y1 - PLAYER_SPEED ELSE y1
        ELSE LET y1 == IF up /\ y > 0 THEN y - PLAYER_SPEED ELSE y
             IN  IF down /\ y1 + PLAYER_H < HEIGHT THEN y1 + PLAYER_SPEED ELSE y1

(* ------------------------ 3. one PLAYING frame ------------------------ *)
\* The key handling of the frame: the new rect.y.
MovePlayer(s, up, down) ==
    LET y == s.player.y
    IN  IF s.timer_inverted > 0
        THEN LET y1 == IF up /\ y + PLAYER_H < HEIGHT THEN y + PLAYER_SPEED ELSE y
             IN  IF down /\ y1 > 0 THEN y1 - PLAYER_SPEED ELSE y1
        ELSE LET y1 == IF up /\ y > 0 THEN y - PLAYER_SPEED ELSE y
             IN  IF down /\ y1 + PLAYER_H < HEIGHT THEN y1 + PLAYER_SPEED ELSE y1

\* effective_speed with the slow-motion test made after the rapid-fire one,
\* so that slow motion has the last word.
EffectiveSpeedSlowLast(s) ==
    IF s.timer_slow_motion > 0 THEN s.current_difficulty_speed \div 2
    ELSE IF s.timer_rapid_fire > 0 THEN RAPID_SPEED * Scale
    ELSE s.current_difficulty_speed

\* effective_speed and spawn_freq, from the timers as the frame finds them.
EffectiveSpeed(s) ==
    IF s.timer_rapid_fire > 0 THEN RAPID_SPEED * Scale
    ELSE IF s.timer_slow_motion > 0 THEN s.current_difficulty_speed \div 2
    ELSE s.current_difficulty_speed

SpawnFreq(s) == IF s.timer_rapid_fire > 0 THEN RAPID_FREQ ELSE BASE_CLOUD_FREQ

Tick(t) == IF t > 0 THEN t - 1 ELSE t

WallDue(s) == s.timer_spawn_cloud + 1 > SpawnFreq(s)
PowerUpDue(s) == s.timer_spawn_powerup + 1 > POWERUP_FREQUENCY

\* current_difficulty_speed *= 1.2 without the cap.
SpeedUpNoCap(speed) == (speed * 12) \div 10

\* current_difficulty_speed *= 1.2, capped at 18.
SpeedUp(speed) ==
    IF speed * 12 > MAX_SPEED * Scale * 10 THEN MAX_SPEED * Scale
    ELSE (speed * 12) \div 10

\* The if / elif chain of the power-up loop with `+=` for `=` on the timers.
CollectAdds(a, ty) ==
    CASE ty = "SLOW_MOTION" -> [a EXCEPT !.timer_slow_motion = @ + SLOW_FRAMES]
      [] ty = "GHOST" -> [a EXCEPT !.timer_ghost_mode = @ + EFFECT_FRAMES]
      [] ty = "ROUND_NUM" ->
            [a EXCEPT !.current_difficulty_speed = BASE_SCROLL_SPEED * Scale]
      [] ty = "INVERT_CONTROLS" -> [a EXCEPT !.timer_inverted = @ + EFFECT_FRAMES]
      [] ty = "RAPID_FIRE" -> [a EXCEPT !.timer_rapid_fire = @ + EFFECT_FRAMES]
      [] OTHER -> a

\* The if / elif chain of the power-up loop without the ROUND_NUM branch.
CollectNoRound(a, ty) ==
    CASE ty = "SLOW_MOTION" -> [a EXCEPT !.timer_slow_motion = SLOW_FRAMES]
      [] ty = "GHOST" -> [a EXCEPT !.timer_ghost_mode = EFFECT_FRAMES]
      [] ty = "INVERT_CONTROLS" -> [a EXCEPT !.timer_inverted = EFFECT_FRAMES]
      [] ty = "RAPID_FIRE" -> [a EXCEPT !.timer_rapid_fire = EFFECT_FRAMES]
      [] OTHER -> a

\* The effect of collecting a power-up of type `ty` on the running values
\* `a` of the frame (the if / elif chain of the power-up loop).
Collect(a, ty) ==
    CASE ty = "SLOW_MOTION" -> [a EXCEPT !.timer_slow_motion = SLOW_FRAMES]
      [] ty = "GHOST" -> [a EXCEPT !.timer_ghost_mode = EFFECT_FRAMES]
      [] ty = "ROUND_NUM" ->
            [a EXCEPT !.current_difficulty_speed = BASE_SCROLL_SPEED * Scale]
      [] ty = "INVERT_CONTROLS" -> [a EXCEPT !.timer_inverted = EFFECT_FRAMES]
      [] ty = "RAPID_FIRE" -> [a EXCEPT !.timer_rapid_fire = EFFECT_FRAMES]
      [] OTHER -> a

\* What the log keeps of the running values.
Effects(a) ==
    [score |-> a.player.score, speed |-> a.current_difficulty_speed,
     slow |-> a.timer_slow_motion, ghost |-> a.timer_ghost_mode,
     inverted |-> a.timer_inverted, rapid |-> a.timer_rapid_fire]

\* The running values after a collection: b is a with the effect applied,
\* and the log gains the collection.
Gathered(a, b, pu) ==
    [b EXCEPT !.got = Append(a.got,
        [type |-> pu.type, before |-> Effects(a), after |-> Effects(b)])]

\* The body of the power-up loop for one power-up, already moved.
\* a.powerups collects the power-ups that stay in the list.
PowerUpStep(a, pu) ==
    IF CollideRect(a.player.x, a.player.y, PLAYER_W, PLAYER_H,
                   pu.x, pu.y, POWERUP_SIZE, POWERUP_SIZE)
    THEN Gathered(a, Collect(a, pu.type), pu)
    ELSE IF pu.x + POWERUP_SIZE < 0 THEN a
    ELSE [a EXCEPT !.powerups = Append(a.powerups, pu)]

\* for pu in self.powerups[:]: the i-th and later power-ups of the snapshot
\* `snap`, with the running values `a`.
RECURSIVE PowerUpPass(_, _, _, _)
PowerUpPass(a, snap, i, eff) ==
    IF i > Len(snap) THEN a
    ELSE PowerUpPass(
           PowerUpStep(a, [snap[i] EXCEPT !.x = ScrollX(snap[i].x, eff)]),
           snap, i + 1, eff)

\* The collision body with `>=` for `==` in the comparison with the target.
ResolveReached(a, cloud) ==
    LET r == Calculate(a.player.score, cloud.op, cloud.val)
        sp == IF r.penalty /\ a.timer_rapid_fire = 0
              THEN SpeedUp(a.current_difficulty_speed)
              ELSE a.current_difficulty_speed
    IN  [a EXCEPT !.player.score = r.score,
                  !.current_difficulty_speed = sp,
                  !.state = IF r.score >= TARGET_NUMBER
                            THEN "TRANSITION_TO_LANDING" ELSE a.state]

\* The body of the cloud loop for a cloud that overlaps the player while
\* ghost mode is off: calculate, the speed penalty, the removal, the target.
Resolve(a, cloud) ==
    LET r == Calculate(a.player.score, cloud.op, cloud.val)
        sp == IF r.penalty /\ a.timer_rapid_fire = 0
              THEN SpeedUp(a.current_difficulty_speed)
              ELSE a.current_difficulty_speed
    IN  [a EXCEPT !.player.score = r.score,
                  !.current_difficulty_speed = sp,
                  !.state = IF r.score = TARGET_NUMBER
                            THEN "TRANSITION_TO_LANDING" ELSE a.state]

\* The running values after an overlap with `cloud`: b is a with the
\* collision resolved (b = a in ghost mode), and the log gains the overlap.
Overlapped(a, b, cloud) ==
    [b EXCEPT !.hits = Append(a.hits,
        [cloud |-> cloud, ghost |-> a.timer_ghost_mode > 0,
         removed |-> ~(a.timer_ghost_mode > 0),
         penalty |-> Calculate(a.player.score, cloud.op, cloud.val).penalty,
         before |-> Effects(a), after |-> Effects(b), state |-> b.state])]

\* `if cloud.rect.right < 0: self.clouds.remove(cloud)` for a cloud that is
\* still in the list (c.clouds collects the clouds that stay), and for one the
\* collision has removed: remove() raises ValueError, which ends run().
StillListed(c, cloud) ==
    IF cloud.x + CLOUD_W < 0 THEN [c EXCEPT !.left = Append(c.left, cloud)]
    ELSE [c EXCEPT !.clouds = Append(c.clouds, cloud)]

Unlisted(c, cloud) ==
    IF cloud.x + CLOUD_W < 0 THEN [c EXCEPT !.fault = TRUE] ELSE c

\* The body of the cloud loop with the removal outside the ghost test: an
\* overlapped cloud is removed in ghost mode too, without being scored.
CloudStepGhostRemoves(a, cloud, cy) ==
    IF ~CollideRect(a.player.x, a.player.y, PLAYER_W, PLAYER_H,
                    cloud.x, cy, CLOUD_W, CLOUD_H)
    THEN StillListed(a, cloud)
    ELSE IF a.timer_ghost_mode > 0
    THEN Unlisted(Overlapped(a, a, cloud), cloud)
    ELSE Unlisted(Overlapped(a, Resolve(a, cloud), cloud), cloud)

\* The body of the cloud loop with the collision resolved in ghost mode too
\* (the ghost test guarding the removal only).
CloudStepNoGhost(a, cloud, cy) ==
    IF ~CollideRect(a.player.x, a.player.y, PLAYER_W, PLAYER_H,
                    cloud.x, cy, CLOUD_W, CLOUD_H)
    THEN StillListed(a, cloud)
    ELSE IF a.timer_ghost_mode > 0
    THEN StillListed(Overlapped(a, Resolve(a, cloud), cloud), cloud)
    ELSE Unlisted(Overlapped(a, Resolve(a, cloud), cloud), cloud)

\* The body of the cloud loop for one cloud of the snapshot, already moved,
\* drawn at height cy.
CloudStep(a, cloud, cy) ==
    IF ~CollideRect(a.player.x, a.player.y, PLAYER_W, PLAYER_H,
                    cloud.x, cy, CLOUD_W, CLOUD_H)
    THEN StillListed(a, cloud)
    ELSE IF a.timer_ghost_mode > 0
    THEN StillListed(Overlapped(a, a, cloud), cloud)
    ELSE Unlisted(Overlapped(a, Resolve(a, cloud), cloud), cloud)

\* for cloud in self.clouds: the loop over the list itself in place of a
\* copy, where a removal makes the iterator pass over the next cloud, which
\* stays listed without being moved or checked.
RECURSIVE CloudPassLive(_, _, _, _, _)
CloudPassLive(a, snap, i, eff, wave) ==
    IF i > Len(snap) THEN a
    ELSE IF a.fault THEN [a EXCEPT !.clouds = a.clouds \o SubSeq(snap, i, Len(snap))]
    ELSE LET b == CloudStep(a, [snap[i] EXCEPT !.x = ScrollX(snap[i].x, eff)],
                            snap[i].oy + (IF i \in DOMAIN wave THEN wave[i] ELSE 0))
         IN  IF Len(b.clouds) = Len(a.clouds) /\ i < Len(snap)
             THEN CloudPassLive([b EXCEPT !.clouds = Append(@, snap[i + 1])],
                                snap, i + 2, eff, wave)
             ELSE CloudPassLive(b, snap, i + 1, eff, wave)

\* for cloud in self.clouds[:]: the i-th and later clouds of the snapshot,
\* wave[i] being the bobbing offset the sine gives cloud i in this frame.
\* After a ValueError the clouds not yet visited are left as they were.
RECURSIVE CloudPass(_, _, _, _, _)
CloudPass(a, snap, i, eff, wave) ==
    IF i > Len(snap) THEN a
    ELSE IF a.fault THEN [a EXCEPT !.clouds = a.clouds \o SubSeq(snap, i, Len(snap))]
    ELSE CloudPass(
           CloudStep(a, [snap[i] EXCEPT !.x = ScrollX(snap[i].x, eff)],
                     snap[i].oy + (IF i \in DOMAIN wave THEN wave[i] ELSE 0)),
           snap, i + 1, eff, wave)

\* The running values of a frame: the session and what the frame has logged.
Running(s) ==
    [state |-> s.state, player |-> s.player, clouds |-> s.clouds,
     powerups |-> s.powerups, timer_spawn_cloud |-> s.timer_spawn_cloud,
     timer_spawn_powerup |-> s.timer_spawn_powerup,
     current_difficulty_speed |-> s.current_difficulty_speed,
     timer_slow_motion |-> s.timer_slow_motion,
     timer_ghost_mode |-> s.timer_ghost_mode,
     timer_inverted |-> s.timer_inverted, timer_rapid_fire |-> s.timer_rapid_fire,
     lander_y |-> s.lander_y, fault |-> s.fault,
     got |-> << >>, hits |-> << >>, spawned |-> << >>, wall |-> << >>,
     left |-> << >>, keys |-> [up |-> FALSE, down |-> FALSE]]

\* The indexes of the clouds of `cs` that overlap the player's rect on the
\* x axis once scrolled by `eff`: the ones whose bobbing decides a collision.
XOverlap(s, cs, eff) ==
    {i \in 1 .. Len(cs) :
        /\ ScrollX(cs[i].x, eff) < s.player.x + PLAYER_W
        /\ ScrollX(cs[i].x, eff) + CLOUD_W > s.player.x}

\* The clouds among those whose bobbing decides a collision with the ship at
\* height y: within the amplitude the cloud can be on the ship and off it.
Deciding(s, cs, eff, y) ==
    {i \in XOverlap(s, cs, eff) :
        /\ cs[i].oy - CLOUD_AMPLITUDE < y + PLAYER_H
        /\ cs[i].oy + CLOUD_AMPLITUDE + CLOUD_H > y
        /\ ~ /\ cs[i].oy + CLOUD_AMPLITUDE < y + PLAYER_H
             /\ cs[i].oy - CLOUD_AMPLITUDE + CLOUD_H > y}

\* The PLAYING branch of run() with the cloud loop ahead of the power-up
\* loop.
PlayingStepCloudsFirst(s, in) ==
    LET eff == EffectiveSpeed(s)
        wall == IF WallDue(s) THEN WallClouds(in.draw, 0) ELSE << >>
        pu == IF PowerUpDue(s)
              THEN << NewPowerUp(s.current_difficulty_speed, in.roll, in.y) >>
              ELSE << >>
        a0 == [Running(s) EXCEPT !.player.y = MovePlayer(s, in.up, in.down),
                        !.timer_slow_motion = Tick(s.timer_slow_motion),
                        !.timer_rapid_fire = Tick(s.timer_rapid_fire),
                        !.timer_ghost_mode = Tick(s.timer_ghost_mode),
                        !.timer_inverted = Tick(s.timer_inverted),
                        !.timer_spawn_cloud =
                            IF WallDue(s) THEN 0 ELSE s.timer_spawn_cloud + 1,
                        !.timer_spawn_powerup =
                            IF PowerUpDue(s) THEN 0 ELSE s.timer_spawn_powerup + 1]
        a1 == CloudPass(
                [a0 EXCEPT !.clouds = << >>,
                           !.wall = wall,
                           !.keys = [up |-> in.up, down |-> in.down],
                           !.spawned = [p \in DOMAIN pu |->
                               [type |-> pu[p].type,
                                speed |-> s.current_difficulty_speed]]],
                s.clouds \o wall, 1, eff, in.wave)
    IN  PowerUpPass([a1 EXCEPT !.powerups = << >>], s.powerups \o pu, 1, eff)

\* The PLAYING branch of run(): the session after the frame, with the
\* collections (got), overlaps (hits), power-up spawn (spawned) and wall
\* spawn (wall) it made, the clouds it removed past the left edge (left) and
\* the keys it found held (keys).
\* in.up, in.down: the keys held; in.draw: the (op, val) pairs of a wall, and
\* in.roll, in.y: the roll and height of a power-up, read only if the spawner
\* fires; in.wave: the bobbing offsets of the clouds.
PlayingStep(s, in) ==
    LET eff == EffectiveSpeed(s)
        wall == IF WallDue(s) THEN WallClouds(in.draw, 0) ELSE << >>
        pu == IF PowerUpDue(s)
              THEN << NewPowerUp(s.current_difficulty_speed, in.roll, in.y) >>
              ELSE << >>
        a0 == [Running(s) EXCEPT !.player.y = MovePlayer(s, in.up, in.down),
                        !.timer_slow_motion = Tick(s.timer_slow_motion),
                        !.timer_rapid_fire = Tick(s.timer_rapid_fire),
                        !.timer_ghost_mode = Tick(s.timer_ghost_mode),
                        !.timer_inverted = Tick(s.timer_inverted),
                        !.timer_spawn_cloud =
                            IF WallDue(s) THEN 0 ELSE s.timer_spawn_cloud + 1,
                        !.timer_spawn_powerup =
                            IF PowerUpDue(s) THEN 0 ELSE s.timer_spawn_powerup + 1]
        a1 == PowerUpPass([a0 EXCEPT !.powerups = << >>], s.powerups \o pu, 1, eff)
    IN  CloudPass(
          [a1 EXCEPT !.clouds = << >>,
                     !.wall = wall,
                     !.keys = [up |-> in.up, down |-> in.down],
                     !.spawned = [p \in DOMAIN pu |->
                         [type |-> pu[p].type, speed |-> s.current_difficulty_speed]]],
          s.clouds \o wall, 1, eff, in.wave)

(* ------------------------ 4. the other scenes ------------------------- *)
\* animate_landing_scene and animate_stick_figure: the lander descends to
\* its pad, then the astronaut walks to the flag.
LandingStep(s) ==
    LET target_y == HEIGHT - 200 - 80
    IN  IF s.lander_y < target_y
        THEN [s EXCEPT !.lander_y = s.lander_y + LANDER_STEP]
        ELSE [s EXCEPT !.lander_y = target_y,
                       !.player.figure_x =
                           IF s.player.figure_x < 600 - 350
                           THEN s.player.figure_x + WALK_STEP
                           ELSE s.player.figure_x]

\* The TRANSITION_TO_LANDING branch with the test made on the ship's right
\* edge in place of its left edge.
TransitionStepRightEdge(s) ==
    LET x == s.player.x + TRANSITION_SPEED
    IN  [s EXCEPT !.player.x = x,
                  !.state = IF x + PLAYER_W > WIDTH THEN "LANDING_SCENE" ELSE s.state]

\* The TRANSITION_TO_LANDING branch of run() leaving for GAME_OVER.
TransitionStepGameOver(s) ==
    LET x == s.player.x + TRANSITION_SPEED
    IN  [s EXCEPT !.player.x = x,
                  !.state = IF x > WIDTH THEN "GAME_OVER" ELSE s.state]

\* The TRANSITION_TO_LANDING branch of run().
TransitionStep(s) ==
    LET x == s.player.x + TRANSITION_SPEED
    IN  [s EXCEPT !.player.x = x,
                  !.state = IF x > WIDTH THEN "LANDING_SCENE" ELSE s.state]

\* The branches of run() other than PLAYING; GAME_OVER only draws.
SceneStep(s) ==
    CASE s.state = "TRANSITION_TO_LANDING" -> TransitionStep(s)
      [] s.state = "LANDING_SCENE" -> LandingStep(s)
      [] OTHER -> s

\* The KEYDOWN handler with `!= PLAYING` for the test of the state (the wall
\* of the reset is ADD 5 three times where no wall was drawn).
SpaceStepNotPlaying(s, draw) ==
    IF s.state # "PLAYING"
    THEN ResetGame(IF draw = << >>
                   THEN << [op |-> "ADD", val |-> 5], [op |-> "ADD", val |-> 5],
                           [op |-> "ADD", val |-> 5] >>
                   ELSE draw)
    ELSE s

\* The KEYDOWN handler with a reset_game that lacks `timer_slow_motion = 0`.
SpaceStepKeepsSlow(s, draw) ==
    IF s.state \in {"LANDING_SCENE", "GAME_OVER"}
    THEN [ResetGame(draw) EXCEPT !.timer_slow_motion = s.timer_slow_motion]
    ELSE s

\* The KEYDOWN handler for SPACE.
SpaceStep(s, draw) ==
    IF s.state \in {"LANDING_SCENE", "GAME_OVER"} THEN ResetGame(draw) ELSE s

(* ----------------------- 5. sessions to start in ---------------------- *)
\* The session in a step's result, which also carries what the step logged.
Strip(r) ==
    [state |-> r.state, player |-> r.player, clouds |-> r.clouds,
     powerups |-> r.powerups, timer_spawn_cloud |-> r.timer_spawn_cloud,
     timer_spawn_powerup |-> r.timer_spawn_powerup,
     current_difficulty_speed |-> r.current_difficulty_speed,
     timer_slow_motion |-> r.timer_slow_motion,
     timer_ghost_mode |-> r.timer_ghost_mode,
     timer_inverted |-> r.timer_inverted, timer_rapid_fire |-> r.timer_rapid_fire,
     lander_y |-> r.lander_y, fault |-> r.fault]

\* The lane (1 .. 3) a cloud was spawned in.
LaneOf(cloud) == (cloud.oy - LaneY(0)) \div (HEIGHT \div 3) + 1

\* The inputs of one frame of a scripted run: the keys and draws of the
\* segment `seg`, each overlapping cloud bobbing by its lane's seg.lane.
ScriptInput(s, seg) ==
    [up |-> seg.up, down |-> seg.down, draw |-> seg.draw, roll |-> seg.roll,
     y |-> seg.y,
     wave |-> [i \in XOverlap(s, s.clouds, EffectiveSpeed(s)) |->
                  seg.lane[LaneOf(s.clouds[i])]]]

\* One frame, and n frames, of run() from session s under the inputs of seg.
\* A ValueError has ended run(): no frame follows it.
ScriptFrame(s, seg) ==
    IF s.state = "PLAYING" THEN Strip(PlayingStep(s, ScriptInput(s, seg)))
    ELSE SceneStep(s)

RECURSIVE RunFrames(_, _, _)
RunFrames(s, seg, n) ==
    IF n = 0 \/ s.fault THEN s
    ELSE IF n = 1 THEN ScriptFrame(s, seg)
    ELSE RunFrames(RunFrames(s, seg, n \div 2), seg, n - n \div 2)

\* A scripted run: the segments of `script` from the k-th on, one after the
\* other.
RECURSIVE RunScript(_, _, _)
RunScript(s, script, k) ==
    IF k > Len(script) \/ s.fault THEN s
    ELSE RunScript(RunFrames(s, script[k], script[k].n), script, k + 1)

(* --------------------- 6. the inputs that are drawn ------------------- *)
\* PLAYING frames explored from each starting session.
MaxFrames == 4

\* The operands, rolls, heights and bobbing offsets the random generator and
\* the clock are taken to give: a few of the values the code can draw.
ValDraws(op) == WallVals(op) \cap (IF op = "MULTIPLY" THEN {2} ELSE {5})
RollDraws == {10, 30, 60, 80, 95}
HeightDraws == {230, 350}
WaveDraws == {-CLOUD_AMPLITUDE, 0, CLOUD_AMPLITUDE}

CloudDraws(score) ==
    UNION {{[op |-> o, val |-> v] : v \in ValDraws(o)} : o \in WallOps(score)}

WallDraws(score) == [1 .. 3 -> CloudDraws(score)]

(* ---------------------------- 7. the steps ---------------------------- *)
\* The log: the step taken (op), the state it was taken in (from), and the
\* collections, overlaps, power-up spawn, wall spawn and clouds removed past
\* the left edge of a PLAYING frame.
NoLog ==
    [op |-> "init", from |-> "init", got |-> << >>, hits |-> << >>, spawned |-> << >>,
     wall |-> << >>, left |-> << >>, keys |-> [up |-> FALSE, down |-> FALSE]]

\* The session variables take the values of the record r.
Becomes(r) ==
    /\ state' = r.state
    /\ player' = r.player
    /\ clouds' = r.clouds
    /\ powerups' = r.powerups
    /\ timer_spawn_cloud' = r.timer_spawn_cloud
    /\ timer_spawn_powerup' = r.timer_spawn_powerup
    /\ current_difficulty_speed' = r.current_difficulty_speed
    /\ timer_slow_motion' = r.timer_slow_motion
    /\ timer_ghost_mode' = r.timer_ghost_mode
    /\ timer_inverted' = r.timer_inverted
    /\ timer_rapid_fire' = r.timer_rapid_fire
    /\ lander_y' = r.lander_y
    /\ fault' = r.fault

\* The frame has left the running values r: the session and the log.
FrameDone(r) ==
    /\ Becomes(r)
    /\ frames' = frames + 1
    /\ log' = [op |-> "frame", from |-> state, got |-> r.got, hits |-> r.hits,
               spawned |-> r.spawned, wall |-> r.wall, left |-> r.left,
               keys |-> r.keys]

\* One pass of the loop body of run() with state PLAYING.
PlayingFrame ==
    /\ state = "PLAYING"
    /\ ~fault
    /\ frames < MaxFrames
    /\ \E up \in BOOLEAN, down \in BOOLEAN :
       \E draw \in IF WallDue(Session) THEN WallDraws(player.score) ELSE {<< >>} :
       \E roll \in IF PowerUpDue(Session) THEN RollDraws ELSE {0} :
       \E y \in IF PowerUpDue(Session) THEN HeightDraws ELSE {0} :
       \E wave \in [Deciding(Session, clouds, EffectiveSpeed(Session),
                               MovePlayer(Session, up, down)) -> WaveDraws] :
          FrameDone(PlayingStep(Session,
                      [up |-> up, down |-> down, draw |-> draw, roll |-> roll,
                       y |-> y, wave |-> wave]))

\* One pass of the loop body of run() with any other state.
SceneFrame ==
    /\ state # "PLAYING"
    /\ ~fault
    /\ Becomes(SceneStep(Session))
    /\ frames' = frames
    /\ log' = [NoLog EXCEPT !.op = "frame", !.from = state]

\* A KEYDOWN event for SPACE taken from the event queue.
KeydownSpace ==
    /\ ~fault
    /\ \E draw \in IF state \in {"LANDING_SCENE", "GAME_OVER"}
                   THEN WallDraws(0) ELSE {<< >>} :
          /\ Becomes(SpaceStep(Session, draw))
          /\ frames' = IF state \in {"LANDING_SCENE", "GAME_OVER"} THEN 0 ELSE frames
          /\ log' = [NoLog EXCEPT !.op = "space", !.from = state]

\* SpaceMathGame.__init__ leaves the session reset_game builds.
Constructed == {ResetGame(draw) : draw \in WallDraws(0)}

\* A wall's three draws, and a segment of a script: n frames with the keys
\* up / down held, the wall `draw` and the power-up (roll, y) for a spawn in
\* the segment, and the bobbing offset of each lane's clouds.
Draw(o1, v1, o2, v2, o3, v3) ==
    << [op |-> o1, val |-> v1], [op |-> o2, val |-> v2], [op |-> o3, val |-> v3] >>

Seg(n, up, down, draw, roll, y, lane) ==
    [n |-> n, up |-> up, down |-> down, draw |-> draw, roll |-> roll, y |-> y,
     lane |-> lane]

\* Bobbing that keeps every cloud off a ship parked at y = 206 (Still), that
\* brings the clouds of lanes 1 and 2 onto it (Both), or of lane 1 only (Top).
Still == <<0, 0, 0>>
Both == <<CLOUD_AMPLITUDE, -CLOUD_AMPLITUDE, 0>>
Top == <<CLOUD_AMPLITUDE, 0, 0>>

\* The ship flies up for 16 frames and parks between lanes 1 and 2; wall 1
\* is spawned in frame 161.
Park(draw1) ==
    << Seg(16, TRUE, FALSE, << >>, 0, 0, Still),
       Seg(145, FALSE, FALSE, draw1, 0, 0, Still) >>

\* A scripted run of the game: the session it starts from and its script.
\* The StartXxx definitions below are such runs, each described by the
\* session it ends in.
Plan(from, script) == [from |-> from, script |-> script]

\* Frame 220 of a session: the first wall (ADD 9, SUBTRACT 5, MULTIPLY 2) is
\* one frame from the ship, the score is 0.
StartFirstWall ==
    Plan(ResetGame(Draw("ADD", 9, "SUBTRACT", 5, "MULTIPLY", 2)),
         << Seg(16, TRUE, FALSE, << >>, 0, 0, Still),
            Seg(145, FALSE, FALSE, Draw("ADD", 5, "ADD", 5, "ADD", 5), 0, 0, Still),
            Seg(59, FALSE, FALSE, << >>, 0, 0, Still) >>)

\* The score is brought to 45 (+9, x4, +9 on walls 0 and 1) with the speed
\* still the base speed; `draw2` is wall 2, `draw4` wall 4, and (roll, y) the
\* power-up of frame 601.
ScoreRun(draw2, draw4, roll, y) ==
    Park(Draw("ADD", 9, "ADD", 1, "SUBTRACT", 1)) \o
    << Seg(161, FALSE, FALSE, draw2, 0, 0, Both),
       Seg(161, FALSE, FALSE, Draw("SUBTRACT", 5, "SUBTRACT", 5, "SUBTRACT", 5),
           0, 0, Top),
       Seg(161, FALSE, FALSE, draw4, roll, y, Still),
       Seg(161, FALSE, FALSE, Draw("ADD", 5, "ADD", 5, "ADD", 5), 0, 0, Still) >>

ScoreStart == ResetGame(Draw("ADD", 9, "MULTIPLY", 4, "SUBTRACT", 1))

\* Frame 501: score 45, wall 2 (ADD 5, ADD 9, SUBTRACT 1) one frame away.
StartNearTarget ==
    Plan(ScoreStart,
         SubSeq(ScoreRun(Draw("ADD", 5, "ADD", 9, "SUBTRACT", 1), << >>, 0, 0), 1, 4)
              \o << Seg(18, FALSE, FALSE, << >>, 0, 0, Still) >>)

\* Frame 501: the score is 36 after collisions with ADD 9 four times (walls
\* 0 and 1), wall 2 (ADD 9, ADD 5, SUBTRACT 1) is one frame away.
StartScenario ==
    Plan(ResetGame(Draw("ADD", 9, "ADD", 9, "SUBTRACT", 1)),
              << Seg(16, TRUE, FALSE, << >>, 0, 0, Both),
                 Seg(145, FALSE, FALSE, Draw("ADD", 9, "ADD", 9, "SUBTRACT", 1), 0, 0, Both),
                 Seg(161, FALSE, FALSE, Draw("ADD", 9, "ADD", 5, "SUBTRACT", 1), 0, 0, Both),
                 Seg(161, FALSE, FALSE, Draw("SUBTRACT", 5, "SUBTRACT", 5, "SUBTRACT", 5),
                     0, 0, Both),
                 Seg(18, FALSE, FALSE, << >>, 0, 0, Still) >>)

\* Frame 823: score 45, a GHOST power-up was collected in frame 771, wall 4
\* (ADD 5, ADD 9, SUBTRACT 1) is one frame away.
StartGhost ==
    Plan(ScoreStart,
         ScoreRun(Draw("ADD", 2, "ADD", 2, "ADD", 2),
                       Draw("ADD", 5, "ADD", 9, "SUBTRACT", 1), 60, 230)
              \o << Seg(18, FALSE, FALSE, << >>, 0, 0, Still) >>)

\* The ship takes both clouds of every wall: the score goes 36, 576, then
\* each wall divides it with a remainder and multiplies it by 4, and the
\* speed climbs by one penalty a wall (two on wall 2).  (roll, y) is the
\* power-up of frame 601; the one of frame 1202 (roll 95, y 600) is missed.
PenaltyRun(roll, y) ==
    << Seg(16, TRUE, FALSE, << >>, 0, 0, Both),
       Seg(145, FALSE, FALSE, Draw("MULTIPLY", 4, "MULTIPLY", 4, "SUBTRACT", 1), 0, 0, Both),
       Seg(161, FALSE, FALSE, Draw("DIVIDE", 7, "DIVIDE", 5, "SUBTRACT", 1), 0, 0, Both),
       Seg(161, FALSE, FALSE, Draw("DIVIDE", 3, "MULTIPLY", 4, "SUBTRACT", 1), 0, 0, Both),
       Seg(161, FALSE, FALSE, Draw("DIVIDE", 3, "MULTIPLY", 4, "SUBTRACT", 1), roll, y, Both),
       Seg(161, FALSE, FALSE, Draw("DIVIDE", 3, "MULTIPLY", 4, "SUBTRACT", 1), 0, 0, Both),
       Seg(161, FALSE, FALSE, Draw("DIVIDE", 5, "MULTIPLY", 4, "SUBTRACT", 1), 0, 0, Both),
       Seg(161, FALSE, FALSE, Draw("DIVIDE", 3, "MULTIPLY", 4, "SUBTRACT", 1), 0, 0, Both),
       Seg(161, FALSE, FALSE, Draw("DIVIDE", 5, "MULTIPLY", 4, "SUBTRACT", 1), 95, 600, Both),
       Seg(161, FALSE, FALSE, Draw("DIVIDE", 3, "MULTIPLY", 4, "SUBTRACT", 1), 0, 0, Both) >>

\* The first `k` segments of a script and then `n` more frames of the next.
Upto(script, k, n) ==
    SubSeq(script, 1, k) \o << [script[k + 1] EXCEPT !.n = n] >>

\* Frame 501: score 576, speed 5, wall 2 (DIVIDE 7, DIVIDE 5) one frame away.
StartPenalty == Plan(ScoreStart, Upto(PenaltyRun(95, 600), 4, 18))

\* Frame 600: speed 7.2, the power-up spawner fires in the next frame and
\* wall 3 (DIVIDE 3, MULTIPLY 4) is two frames away.
StartSpawnLow == Plan(ScoreStart, Upto(PenaltyRun(95, 600), 4, 117))

\* Frame 693: speed 8.64, a ROUND_NUM power-up is two frames from the ship.
StartRoundNum == Plan(ScoreStart, Upto(PenaltyRun(30, 230), 5, 49))

\* Frame 730: speed 8.64, a RAPID_FIRE power-up was collected in frame 695,
\* a wall (DIVIDE 3, MULTIPLY 4) is two frames away.
StartRapid == Plan(ScoreStart, Upto(PenaltyRun(95, 230), 5, 86))

\* Frame 1201: speed 17.915904, the power-up spawner fires in the next frame.
StartSpawnHigh == Plan(ScoreStart, Upto(PenaltyRun(95, 600), 8, 74))

\* Frame 1337: speed 17.915904, wall 8 (DIVIDE 5, MULTIPLY 4) one frame away.
StartCap == Plan(ScoreStart, Upto(PenaltyRun(95, 600), 9, 49))

\* The ship takes walls 0 and 1 (score 576), lets wall 2 pass and collects a
\* SLOW_MOTION power-up in frame 771; walls 3, 4 and 5 bring the score to 22
\* and the speed to 7.2 by frame 1105, and a ROUND_NUM power-up is spawned in
\* frame 1202.  `draw6` is wall 6, which reaches the ship in frame 1226.
SlowRun(draw6) ==
    << Seg(16, TRUE, FALSE, << >>, 0, 0, Both),
       Seg(145, FALSE, FALSE, Draw("MULTIPLY", 4, "MULTIPLY", 4, "SUBTRACT", 1), 0, 0, Both),
       Seg(161, FALSE, FALSE, Draw("DIVIDE", 7, "DIVIDE", 5, "SUBTRACT", 1), 0, 0, Both),
       Seg(161, FALSE, FALSE, Draw("DIVIDE", 3, "MULTIPLY", 4, "SUBTRACT", 1), 0, 0, Both),
       Seg(161, FALSE, FALSE, Draw("DIVIDE", 3, "DIVIDE", 2, "SUBTRACT", 1), 10, 230, Still),
       Seg(161, FALSE, FALSE, Draw("DIVIDE", 3, "DIVIDE", 2, "SUBTRACT", 1), 0, 0, Both),
       Seg(161, FALSE, FALSE, draw6, 0, 0, Both),
       Seg(161, FALSE, FALSE, Draw("ADD", 5, "ADD", 5, "SUBTRACT", 1), 0, 0, Both),
       Seg(161, FALSE, FALSE, Draw("ADD", 5, "ADD", 5, "SUBTRACT", 1), 30, 230, Both),
       Seg(161, FALSE, FALSE, Draw("ADD", 5, "ADD", 5, "SUBTRACT", 1), 0, 0, Still) >>

\* Frame 1225: slow motion is on (147 frames left), score 22, speed 7.2, the
\* ROUND_NUM power-up is on screen, wall 6 (ADD 3, MULTIPLY 2) two frames away.
StartSlowWin ==
    Plan(ScoreStart,
         Upto(SlowRun(Draw("ADD", 3, "MULTIPLY", 2, "SUBTRACT", 1)), 8, 97))

\* Frame 1350: slow motion is on (21 frames left), speed 10.368 after wall 6
\* (DIVIDE 3, DIVIDE 5), the ROUND_NUM power-up is two frames from the ship.
StartSlowRound ==
    Plan(ScoreStart,
         Upto(SlowRun(Draw("DIVIDE", 3, "DIVIDE", 5, "SUBTRACT", 1)), 9, 62))

\* Frame 157: no wall has been spawned since the construction, the next is
\* due in frame 161.
StartWallDue ==
    Plan(ResetGame(Draw("ADD", 9, "SUBTRACT", 5, "MULTIPLY", 2)),
         << Seg(16, TRUE, FALSE, << >>, 0, 0, Still),
            Seg(141, FALSE, FALSE, << >>, 0, 0, Still) >>)

\* Frame 1350: slow motion is on (21 frames left) and a second SLOW_MOTION
\* power-up is two frames from the ship.
StartSlowAgain ==
    Plan(ScoreStart,
         Upto([SlowRun(Draw("DIVIDE", 3, "DIVIDE", 5, "SUBTRACT", 1)) EXCEPT
                 ![9] = Seg(161, FALSE, FALSE, Draw("ADD", 5, "ADD", 5, "SUBTRACT", 1),
                            10, 230, Both)], 9, 62))

\* The slow run with a RAPID_FIRE power-up spawned in frame 1202 at speed
\* 7.2; walls 6 (DIVIDE 4, DIVIDE 4) and 7 (DIVIDE 3, DIVIDE 3) bring the
\* speed to 14.92992 before it is collected in frame 1341.
\* Frame 1350: rapid fire (291 frames left) and slow motion (21 left) are
\* both on, and a cloud is about to leave the screen.
StartRapidSlow ==
    Plan(ScoreStart,
         Upto([SlowRun(Draw("DIVIDE", 4, "DIVIDE", 4, "SUBTRACT", 1)) EXCEPT
                 ![8] = Seg(161, FALSE, FALSE, Draw("DIVIDE", 3, "DIVIDE", 3, "SUBTRACT", 1),
                            0, 0, Both),
                 ![9] = Seg(161, FALSE, FALSE, Draw("ADD", 5, "ADD", 5, "SUBTRACT", 1),
                            95, 230, Both),
                 ![10] = Seg(161, FALSE, FALSE, Draw("ADD", 5, "ADD", 5, "SUBTRACT", 1),
                             0, 0, Both)], 9, 62))

\* A run at the base speed: the score is brought to 45 on walls 0 and 1,
\* then the ship keeps off every cloud and the power-ups of frames 601 and
\* 1202 pass below it.  Wall 11 (DIVIDE 7, DIVIDE 5), spawned in frame 1771,
\* is over the ship from frame 1951 to 2006, and (roll, y) is the power-up
\* of frame 1803, which reaches the ship in frame 1973.  The ship dips for
\* one frame in frame 1980, where it collects a power-up drawn at y = 270;
\* wall 13 (ADD 5, ADD 5), spawned in frame 2093, reaches it in frame 2273.
Idle(n) == Seg(n, FALSE, FALSE, Draw("ADD", 5, "ADD", 5, "ADD", 5), 0, 0, Still)

LateRun(roll, y) ==
    Park(Draw("ADD", 9, "ADD", 1, "SUBTRACT", 1)) \o
    << Seg(161, FALSE, FALSE, Draw("ADD", 5, "ADD", 5, "ADD", 5), 0, 0, Both),
       Seg(161, FALSE, FALSE, Draw("ADD", 5, "ADD", 5, "ADD", 5), 0, 0, Top),
       Seg(161, FALSE, FALSE, Draw("ADD", 5, "ADD", 5, "ADD", 5), 95, 600, Still),
       Idle(161), Idle(161), Idle(161),
       Seg(161, FALSE, FALSE, Draw("ADD", 5, "ADD", 5, "ADD", 5), 95, 600, Still),
       Idle(161), Idle(161),
       Seg(161, FALSE, FALSE, Draw("DIVIDE", 7, "DIVIDE", 5, "SUBTRACT", 1), 0, 0, Still),
       Seg(161, FALSE, FALSE, Draw("ADD", 5, "ADD", 5, "ADD", 5), roll, y, Still),
       Idle(47),
       Seg(1, FALSE, TRUE, << >>, 0, 0, Still),
       Seg(1, TRUE, FALSE, << >>, 0, 0, Still),
       Seg(112, FALSE, FALSE, Draw("ADD", 5, "ADD", 5, "SUBTRACT", 1), 0, 0, Still),
       Idle(161), Idle(161) >>

\* Frame 1978: score 45, wall 11 is over the ship and a GHOST power-up is
\* within its reach, just below it.
StartGhostDue == Plan(ScoreStart, Upto(LateRun(60, 270), 13, 46))

\* Frame 1971: score 45, wall 11 is over the ship and a RAPID_FIRE power-up
\* is two frames from it.
StartRapidDue == Plan(ScoreStart, Upto(LateRun(95, 230), 13, 39))

\* Frame 2277: the ghost mode of the power-up collected in frame 1980 has 3
\* frames left, and wall 13 is over the ship.
StartGhostEnds == Plan(ScoreStart, Upto(LateRun(60, 270), 18, 23))

\* Sessions that never score (every cloud subtracts from 0), with the ship
\* taken to within two steps of the top and of the bottom edge: with the
\* plain controls after 60 frames, and with the controls inverted by the
\* power-up of frame 601, which reaches the ship in frame 771.
NoScore == Draw("SUBTRACT", 1, "SUBTRACT", 1, "SUBTRACT", 1)

Held(n, up, down) == Seg(n, up, down, NoScore, 80, HEIGHT \div 2, Still)

StartTopEdge ==
    Plan(ResetGame(NoScore), << Held(60, FALSE, FALSE), Held(37, TRUE, FALSE) >>)

StartBottomEdge ==
    Plan(ResetGame(NoScore), << Held(60, FALSE, FALSE), Held(30, FALSE, TRUE) >>)

StartInvertedTop ==
    Plan(ResetGame(NoScore), << Held(771, FALSE, FALSE), Held(37, FALSE, TRUE) >>)

StartInvertedBottom ==
    Plan(ResetGame(NoScore), << Held(811, FALSE, FALSE), Held(30, TRUE, FALSE) >>)

\* The inversion about to run out with the ship one step from the top edge.
StartInvertedEnds ==
    Plan(ResetGame(NoScore),
         << Held(771, FALSE, FALSE), Held(38, FALSE, TRUE), Held(260, FALSE, FALSE) >>)

StartPlans ==
    {StartTopEdge, StartBottomEdge, StartInvertedTop, StartInvertedBottom,
     StartInvertedEnds,
     StartFirstWall, StartNearTarget, StartScenario, StartGhost, StartPenalty,
     StartSpawnLow, StartRoundNum, StartRapid, StartSpawnHigh, StartCap,
     StartSlowWin, StartSlowRound, StartWallDue, StartSlowAgain, StartRapidSlow,
     StartGhostDue, StartRapidDue, StartGhostEnds}

\* The sessions the exploration starts in: the constructed one, and sessions
\* that scripted runs of the game reach from it.
StartSessions ==
    Constructed \cup {RunScript(p.from, p.script, 1) : p \in StartPlans}

Init ==
    /\ \E s \in StartSessions :
          /\ state = s.state
          /\ player = s.player
          /\ clouds = s.clouds
          /\ powerups = s.powerups
          /\ timer_spawn_cloud = s.timer_spawn_cloud
          /\ timer_spawn_powerup = s.timer_spawn_powerup
          /\ current_difficulty_speed = s.current_difficulty_speed
          /\ timer_slow_motion = s.timer_slow_motion
          /\ timer_ghost_mode = s.timer_ghost_mode
          /\ timer_inverted = s.timer_inverted
          /\ timer_rapid_fire = s.timer_rapid_fire
          /\ lander_y = s.lander_y
          /\ fault = s.fault
    /\ frames = 0
    /\ log = NoLog

Next == PlayingFrame \/ SceneFrame \/ KeydownSpace

Spec == Init /\ [][Next]_vars

\* The sessions newly constructed and the ones about to reach the target.
LiveSessions ==
    Constructed \cup {RunScript(p.from, p.script, 1) :
                         p \in {StartNearTarget, StartScenario, StartSlowWin}}

InitLive ==
    /\ \E s \in LiveSessions :
          /\ state = s.state
          /\ player = s.player
          /\ clouds = s.clouds
          /\ powerups = s.powerups
          /\ timer_spawn_cloud = s.timer_spawn_cloud
          /\ timer_spawn_powerup = s.timer_spawn_powerup
          /\ current_difficulty_speed = s.current_difficulty_speed
          /\ timer_slow_motion = s.timer_slow_motion
          /\ timer_ghost_mode = s.timer_ghost_mode
          /\ timer_inverted = s.timer_inverted
          /\ timer_rapid_fire = s.timer_rapid_fire
          /\ lander_y = s.lander_y
          /\ fault = s.fault
    /\ frames = 0
    /\ log = NoLog

\* run() takes the branch of the current state once per tick of the clock, so
\* a scene that can draw a frame does draw one.
SpecLive == InitLive /\ [][Next]_vars /\ WF_vars(SceneFrame)


(* --------------- 8. calculate and the collision on its own ------------ *)
\* The scores and operands Player.calculate is applied to.
MaxScore == 60
MaxOperand == 9

\* A session in play with any score up to MaxScore and no cloud on screen.
InitCalc ==
    /\ \E s \in 0 .. MaxScore :
          player = [NewPlayer EXCEPT !.score = s]
    /\ state = "PLAYING"
    /\ clouds = << >>
    /\ powerups = << >>
    /\ timer_spawn_cloud = 0
    /\ timer_spawn_powerup = 0
    /\ current_difficulty_speed = BASE_SCROLL_SPEED * Scale
    /\ timer_slow_motion = 0
    /\ timer_ghost_mode = 0
    /\ timer_inverted = 0
    /\ timer_rapid_fire = 0
    /\ lander_y = LANDER_START_Y
    /\ fault = FALSE
    /\ frames = 0
    /\ log = NoLog

\* The collision body of the cloud loop applied to a cloud (op, val), the
\* operand being any integer 0 .. MaxOperand: calculate, the speed penalty,
\* the comparison with the target.
Collide ==
    \E op \in Operations, val \in 0 .. MaxOperand :
       LET r == Calculate(player.score, op, val)
           b == Resolve(Running(Session), [op |-> op, val |-> val])
       IN  /\ b.player.score <= MaxScore
           /\ Becomes(Strip(b))
           /\ frames' = frames
           /\ log' = [op |-> "calculate", from |-> state,
                      arg |-> [op |-> op, val |-> val],
                      before |-> player.score, penalty |-> r.penalty]

NextCalc == Collide

SpecCalc == InitCalc /\ [][NextCalc]_vars

(* ----------------------------- properties ----------------------------- *)
Range(s) == {s[i] : i \in DOMAIN s}

Min(a, b) == IF a <= b THEN a ELSE b

\* The step is a frame of run() taken in state PLAYING.
FrameStep == log'.op = "frame" /\ state = "PLAYING"

\* The collision body applied to the first k clouds of cs, in order.
RECURSIVE CollideInOrder(_, _, _)
CollideInOrder(a, cs, k) ==
    IF k = 0 THEN a ELSE Resolve(CollideInOrder(a, cs, k - 1), cs[k])

Scenario ==
    << [op |-> "ADD", val |-> 9], [op |-> "ADD", val |-> 9], [op |-> "ADD", val |-> 9],
       [op |-> "ADD", val |-> 9], [op |-> "ADD", val |-> 9], [op |-> "ADD", val |-> 5] >>

\* From score 0 the clouds of Scenario give 9, 18, 27, 36, 45 in state
\* PLAYING and then 50 in state TRANSITION_TO_LANDING.
ScenarioRun ==
    LET a0 == Running(ResetGame(SubSeq(Scenario, 1, 3)))
    IN  /\ \A k \in 0 .. 5 :
              /\ CollideInOrder(a0, Scenario, k).state = "PLAYING"
              /\ CollideInOrder(a0, Scenario, k).player.score = 9 * k
        /\ CollideInOrder(a0, Scenario, 6).state = "TRANSITION_TO_LANDING"
        /\ CollideInOrder(a0, Scenario, 6).player.score = TARGET_NUMBER

\* C1: a PLAYING frame ends in state TRANSITION_TO_LANDING if and only if
\* one of its cloud collisions outside ghost mode left the score equal to the
\* target right after it was applied; and the clouds ADD 9 (five times),
\* ADD 5 collided in order from score 0 reach the target, and the transition,
\* at the sixth collision and not before.
C1_TransitionIffTarget ==
    [][/\ ScenarioRun
       /\ FrameStep =>
            ((state' = "TRANSITION_TO_LANDING") <=>
                \E i \in DOMAIN log'.hits :
                    /\ ~log'.hits[i].ghost
                    /\ log'.hits[i].after.score = TARGET_NUMBER)]_vars

\* A frame took the score from 36 to 45 and to 50 with two collisions, and
\* the state is TRANSITION_TO_LANDING.
C1_Reached ==
    /\ state = "TRANSITION_TO_LANDING"
    /\ log.op = "frame"
    /\ log.from = "PLAYING"
    /\ Len(log.hits) = 2
    /\ log.hits[1].before.score = 36
    /\ log.hits[1].after.score = 45
    /\ log.hits[1].state = "PLAYING"
    /\ log.hits[2].after.score = TARGET_NUMBER
    /\ player.score = TARGET_NUMBER

\* C2: in a PLAYING frame whose ghost timer is > 0 when the clouds are
\* checked, a cloud that overlaps the player leaves the score and the
\* difficulty speed as they were, stays in the cloud list, and the state
\* stays PLAYING.
C2_GhostCollision ==
    [][(FrameStep /\ timer_ghost_mode' > 0) =>
          \A i \in DOMAIN log'.hits :
             LET h == log'.hits[i]
             IN  /\ h.after = h.before
                 /\ ~h.removed
                 /\ h.cloud \in Range(clouds')
                 /\ h.state = "PLAYING"
                 /\ state' = "PLAYING"
                 /\ player'.score = player.score
                 /\ current_difficulty_speed' = h.before.speed]_vars

\* A frame in ghost mode in which a cloud overlapped the player.
C2_Reached ==
    /\ log.op = "frame"
    /\ log.from = "PLAYING"
    /\ timer_ghost_mode > 0
    /\ log.hits # << >>

\* C3: a cloud collision outside ghost mode that returns the penalty flag
\* makes the difficulty speed D min(1.2 D, 18) if the rapid-fire timer is 0
\* and leaves it alone if the timer is > 0; a collision that returns no
\* penalty leaves it alone.  (The speed the frame ends with is the one the
\* last collision left.)
C3_PenaltySpeed ==
    [][FrameStep =>
         /\ \A i \in DOMAIN log'.hits :
               LET h == log'.hits[i]
               IN  /\ h.before.rapid = timer_rapid_fire'
                   /\ ~h.ghost =>
                        IF h.penalty /\ h.before.rapid = 0
                        THEN h.after.speed * 10 =
                                Min(h.before.speed * 12, MAX_SPEED * Scale * 10)
                        ELSE h.after.speed = h.before.speed
         /\ \A i \in DOMAIN log'.hits :
               IF i = Len(log'.hits)
               THEN current_difficulty_speed' = log'.hits[i].after.speed
               ELSE log'.hits[i + 1].before.speed = log'.hits[i].after.speed]_vars

\* A penalty collision with rapid fire off met the cap: 1.2 D > 18, and the
\* speed is 18.
C3_Reached ==
    /\ log.op = "frame"
    /\ \E i \in DOMAIN log.hits :
          /\ log.hits[i].penalty
          /\ ~log.hits[i].ghost
          /\ log.hits[i].before.rapid = 0
          /\ log.hits[i].before.speed * 12 > MAX_SPEED * Scale * 10
    /\ current_difficulty_speed = MAX_SPEED * Scale

\* C4: collecting a ROUND_NUM power-up sets the difficulty speed to the base
\* scroll speed in that frame, whatever the speed and the effect timers are,
\* and changes neither the four effect timers nor the score.  (In a frame
\* with that one collection and no cloud overlap, the frame ends with the
\* base speed, the score it began with and the timers one tick down.)
C4_RoundNum ==
    [][FrameStep =>
         \A i \in DOMAIN log'.got :
            LET g == log'.got[i]
            IN  g.type = "ROUND_NUM" =>
                  /\ g.after.speed = BASE_SCROLL_SPEED * Scale
                  /\ g.after.slow = g.before.slow
                  /\ g.after.ghost = g.before.ghost
                  /\ g.after.inverted = g.before.inverted
                  /\ g.after.rapid = g.before.rapid
                  /\ g.after.score = g.before.score
                  /\ (Len(log'.got) = 1 /\ log'.hits = << >>) =>
                        /\ current_difficulty_speed' = BASE_SCROLL_SPEED * Scale
                        /\ player'.score = player.score
                        /\ timer_slow_motion' = Tick(timer_slow_motion)
                        /\ timer_ghost_mode' = Tick(timer_ghost_mode)
                        /\ timer_inverted' = Tick(timer_inverted)
                        /\ timer_rapid_fire' = Tick(timer_rapid_fire)]_vars

\* A ROUND_NUM power-up was collected at a speed above the base speed while
\* slow motion was on.
C4_Reached ==
    /\ log.op = "frame"
    /\ \E i \in DOMAIN log.got :
          /\ log.got[i].type = "ROUND_NUM"
          /\ log.got[i].before.speed > BASE_SCROLL_SPEED * Scale
          /\ log.got[i].before.slow > 0
    /\ current_difficulty_speed = BASE_SCROLL_SPEED * Scale
    /\ timer_slow_motion > 0

\* C5: after SPACE in LANDING_SCENE or GAME_OVER the state is PLAYING, the
\* score 0, the difficulty speed the base speed, the four effect timers and
\* the two spawn timers 0, the power-up list empty, the cloud list the three
\* clouds of one new wall, and the ship's x, the lander's height and the
\* astronaut's walk counter have their initial values.
C5_ResetState ==
    [][(log'.op = "space" /\ state \in {"LANDING_SCENE", "GAME_OVER"}) =>
         /\ state' = "PLAYING"
         /\ player'.score = 0
         /\ current_difficulty_speed' = BASE_SCROLL_SPEED * Scale
         /\ timer_slow_motion' = 0
         /\ timer_ghost_mode' = 0
         /\ timer_inverted' = 0
         /\ timer_rapid_fire' = 0
         /\ timer_spawn_cloud' = 0
         /\ timer_spawn_powerup' = 0
         /\ powerups' = << >>
         /\ Len(clouds') = 3
         /\ \A i \in 1 .. 3 :
               /\ clouds'[i].x = WIDTH + 100 + 200
               /\ clouds'[i].oy = LaneY(i - 1)
               /\ clouds'[i].op \in {"ADD", "SUBTRACT", "MULTIPLY"}
               /\ clouds'[i].val \in WallVals(clouds'[i].op)
         /\ player'.x = PLAYER_X
         /\ lander_y' = LANDER_START_Y
         /\ player'.figure_x = 0]_vars

\* SPACE was pressed in LANDING_SCENE and the game is in play again.
C5_Reached ==
    /\ log.op = "space"
    /\ log.from = "LANDING_SCENE"
    /\ state = "PLAYING"

\* The session variables.
session == <<state, player, clouds, powerups, timer_spawn_cloud, timer_spawn_powerup,
             current_difficulty_speed, timer_slow_motion, timer_ghost_mode,
             timer_inverted, timer_rapid_fire, lander_y, fault>>

\* C6: a SPACE key press resets the session only in LANDING_SCENE or
\* GAME_OVER; pressed in PLAYING or TRANSITION_TO_LANDING it changes nothing
\* of the session.
C6_SpaceElsewhere ==
    [][log'.op = "space" =>
         /\ state \in GameStates
         /\ state \in {"PLAYING", "TRANSITION_TO_LANDING"} => UNCHANGED session]_vars

\* SPACE was pressed while the ship was flying off in TRANSITION_TO_LANDING.
C6_Reached ==
    /\ log.op = "space"
    /\ log.from = "TRANSITION_TO_LANDING"
    /\ state = "TRANSITION_TO_LANDING"
    /\ player.x > PLAYER_X
    /\ player.score = TARGET_NUMBER

\* C7: calculate(DIVIDE, V) with V > 0 on a score S >= 0 leaves the integer
\* nearest to S / V, the even one of the two when S / V is an exact half, and
\* returns the penalty flag exactly when V does not divide S.
C7_DivideRounds ==
    (log.op = "calculate" /\ log.arg.op = "DIVIDE" /\ log.arg.val > 0) =>
        LET S == log.before
            V == log.arg.val
            q == player.score
        IN  /\ 2 * (q * V - S) <= V
            /\ 2 * (S - q * V) <= V
            /\ (2 * (q * V - S) = V \/ 2 * (S - q * V) = V) => q % 2 = 0
            /\ log.penalty <=> (S % V # 0)

\* 5 was divided by 2: the score is 2 and the penalty flag was returned.
C7_Reached ==
    /\ log.op = "calculate"
    /\ log.arg = [op |-> "DIVIDE", val |-> 2]
    /\ log.before = 5
    /\ player.score = 2
    /\ log.penalty

\* C8: calculate(DIVIDE, 0) leaves the score as it is and returns no
\* penalty; there is no fault, and the difficulty speed is not raised.
C8_DivideByZero ==
    [][(log'.op = "calculate" /\ log'.arg = [op |-> "DIVIDE", val |-> 0]) =>
         /\ player'.score = player.score
         /\ ~log'.penalty
         /\ ~fault'
         /\ current_difficulty_speed' = current_difficulty_speed]_vars

\* A score above 0 was divided by 0 and is what it was.
C8_Reached ==
    /\ log.op = "calculate"
    /\ log.arg = [op |-> "DIVIDE", val |-> 0]
    /\ log.before > 0
    /\ player.score = log.before

\* C9: the score is never negative, and no operation with an operand a wall
\* can carry makes it negative.
C9_ScoreNonNegative ==
    /\ player.score >= 0
    /\ \A op \in Operations : \A v \in WallVals(op) :
          Calculate(player.score, op, v).score >= 0

\* A SUBTRACT cloud with an operand above the score was hit: the score is 0.
C9_Reached ==
    /\ log.op = "frame"
    /\ \E i \in DOMAIN log.hits :
          /\ log.hits[i].cloud.op = "SUBTRACT"
          /\ ~log.hits[i].ghost
          /\ log.hits[i].before.score < log.hits[i].cloud.val
          /\ log.hits[i].after.score = 0
    /\ player.score = 0

FastTypes == {"ROUND_NUM", "SLOW_MOTION", "GHOST", "INVERT_CONTROLS"}

\* C10: a power-up spawned at a difficulty speed above 1.5 x the base speed
\* is never RAPID_FIRE; the rolls give exactly the four other types there and
\* all five types at a speed of at most 1.5 x the base speed.
C10_NoRapidWhenFast ==
    /\ \A i \in DOMAIN log.spawned :
          /\ \E j \in DOMAIN powerups : powerups[j].type = log.spawned[i].type
          /\ 2 * log.spawned[i].speed > 3 * BASE_SCROLL_SPEED * Scale =>
                log.spawned[i].type \in FastTypes
    /\ {PowerUpType(current_difficulty_speed, r) : r \in 0 .. 99} =
          IF 2 * current_difficulty_speed > 3 * BASE_SCROLL_SPEED * Scale
          THEN FastTypes ELSE PowerUpTypes

\* A power-up was spawned at a speed above 1.5 x the base speed with the roll
\* that gives RAPID_FIRE at lower speeds.
C10_Reached ==
    /\ log.op = "frame"
    /\ log.spawned # << >>
    /\ 2 * log.spawned[1].speed > 3 * BASE_SCROLL_SPEED * Scale
    /\ log.spawned[1].type = "INVERT_CONTROLS"
    /\ PowerUpType(BASE_SCROLL_SPEED * Scale, 95) = "RAPID_FIRE"

\* C11: the state never becomes GAME_OVER, and no step is taken in it,
\* whatever frames, key presses and resets the session goes through.
C11_NoGameOver ==
    /\ state \in GameStates \ {"GAME_OVER"}
    /\ log.from # "GAME_OVER"

\* The landing scene has played to its end: the lander is on its pad and
\* the astronaut at the flag.
C11_Reached ==
    /\ state = "LANDING_SCENE"
    /\ log.op = "frame"
    /\ lander_y = HEIGHT - 200 - 80
    /\ player.figure_x >= 600 - 350

\* C12: a wall is spawned in the PLAYING frame in which the frames counted
\* since the last spawn reach spawn_freq (160, or 40 while rapid fire is on),
\* so that walls are spawn_freq frames apart, and the cloud spawn timer is 0
\* right after a spawn.
C12_SpawnEvery ==
    [][FrameStep =>
         LET spawn_freq == IF timer_rapid_fire > 0 THEN 40 ELSE 160
         IN  /\ (log'.wall # << >>) <=> (timer_spawn_cloud + 1 >= spawn_freq)
             /\ (log'.wall # << >>) => timer_spawn_cloud' = 0]_vars

\* The speed the clouds and power-ups of a frame are to move by:
\* 12 in rapid fire, else half the difficulty speed in slow motion, else the
\* difficulty speed.
ClaimedSpeed ==
    IF timer_rapid_fire > 0 THEN 12 * Scale
    ELSE IF timer_slow_motion > 0 THEN current_difficulty_speed \div 2
    ELSE current_difficulty_speed

\* The clouds and the power-ups a frame starts its passes with, moved by the
\* speed e.
MovedClouds(e) ==
    [i \in 1 .. Len(clouds) + Len(log'.wall) |->
        [(clouds \o log'.wall)[i] EXCEPT !.x = ScrollX(@, e)]]

MovedPowerUps(e) ==
    [i \in 1 .. Len(powerups) |-> [powerups[i] EXCEPT !.x = ScrollX(@, e)]]

\* C13: in a PLAYING frame every cloud and power-up moves by 12 if the
\* rapid-fire timer is > 0 at the start of the frame, else by half the
\* difficulty speed if the slow-motion timer is > 0, else by the difficulty
\* speed: the clouds and power-ups the frame leaves, and the clouds it found
\* on the ship, are the ones it began with (and spawned) at their moved
\* positions.  Neither effect changes the stored difficulty speed: a
\* collection of SLOW_MOTION or RAPID_FIRE leaves it alone, and so does a
\* frame with no cloud collision and no ROUND_NUM collection.
C13_EffectiveSpeed ==
    [][FrameStep =>
         /\ timer_slow_motion > 0 => current_difficulty_speed % 2 = 0
         /\ Range(clouds') \subseteq Range(MovedClouds(ClaimedSpeed))
         /\ \A i \in DOMAIN log'.hits :
               log'.hits[i].cloud \in Range(MovedClouds(ClaimedSpeed))
         /\ \A i \in DOMAIN log'.left :
               log'.left[i] \in Range(MovedClouds(ClaimedSpeed))
         /\ Len(clouds') + Len(log'.left)
               + Cardinality({i \in DOMAIN log'.hits : log'.hits[i].removed})
               = Len(clouds) + Len(log'.wall)
         /\ \A j \in DOMAIN powerups' :
               \/ powerups'[j] \in Range(MovedPowerUps(ClaimedSpeed))
               \/ /\ log'.spawned # << >>
                  /\ j = Len(powerups')
                  /\ powerups'[j].x = ScrollX(WIDTH + 50, ClaimedSpeed)
         /\ \A i \in DOMAIN log'.got :
               log'.got[i].type \in {"SLOW_MOTION", "RAPID_FIRE"} =>
                  log'.got[i].after.speed = log'.got[i].before.speed
         /\ (/\ \A i \in DOMAIN log'.hits : log'.hits[i].ghost
             /\ \A i \in DOMAIN log'.got : log'.got[i].type # "ROUND_NUM") =>
               current_difficulty_speed' = current_difficulty_speed]_vars

\* A frame has moved clouds while rapid fire and slow motion were both on
\* and the difficulty speed was above 12.
C13_Reached ==
    /\ log.op = "frame"
    /\ log.from = "PLAYING"
    /\ log.got = << >>
    /\ timer_rapid_fire > 0
    /\ timer_slow_motion > 0
    /\ current_difficulty_speed > 12 * Scale
    /\ clouds # << >>

\* The types collected in the frame that a step takes.
GotTypes == {log'.got[i].type : i \in DOMAIN log'.got}

\* C14: the four effect timers stay within 0 .. their activation value
\* (600 for slow motion, 300 for the others).  In a PLAYING frame a timer
\* whose power-up is not collected goes down by exactly 1 if it was above 0
\* and stays 0 if it was 0; a timer whose power-up is collected in the frame
\* ends the frame at its full activation value (not the old value plus it),
\* and a collection changes no timer but its own.  A frame in any other
\* state changes no timer.
C14_Timers ==
    /\ [](/\ timer_slow_motion \in 0 .. 600
          /\ timer_ghost_mode \in 0 .. 300
          /\ timer_inverted \in 0 .. 300
          /\ timer_rapid_fire \in 0 .. 300)
    /\ [][log'.op = "frame" =>
            IF state = "PLAYING"
            THEN /\ timer_slow_motion' =
                       IF "SLOW_MOTION" \in GotTypes THEN 600
                       ELSE Tick(timer_slow_motion)
                 /\ timer_ghost_mode' =
                       IF "GHOST" \in GotTypes THEN 300
                       ELSE Tick(timer_ghost_mode)
                 /\ timer_inverted' =
                       IF "INVERT_CONTROLS" \in GotTypes THEN 300
                       ELSE Tick(timer_inverted)
                 /\ timer_rapid_fire' =
                       IF "RAPID_FIRE" \in GotTypes THEN 300
                       ELSE Tick(timer_rapid_fire)
                 /\ \A i \in DOMAIN log'.got :
                       LET g == log'.got[i]
                       IN  /\ g.type # "SLOW_MOTION" => g.after.slow = g.before.slow
                           /\ g.type # "GHOST" => g.after.ghost = g.before.ghost
                           /\ g.type # "INVERT_CONTROLS" =>
                                 g.after.inverted = g.before.inverted
                           /\ g.type # "RAPID_FIRE" => g.after.rapid = g.before.rapid
            ELSE /\ timer_slow_motion' = timer_slow_motion
                 /\ timer_ghost_mode' = timer_ghost_mode
                 /\ timer_inverted' = timer_inverted
                 /\ timer_rapid_fire' = timer_rapid_fire]_vars

\* SLOW_MOTION has been collected while the slow-motion timer was still
\* running, and the timer is 600 again.
C14_Reached ==
    /\ log.op = "frame"
    /\ log.from = "PLAYING"
    /\ \E i \in DOMAIN log.got :
          /\ log.got[i].type = "SLOW_MOTION"
          /\ log.got[i].before.slow > 0
    /\ timer_slow_motion = 600

\* C15 as stated: a cloud that has overlapped the player while ghost mode
\* was active is never scored and never removed by collision afterwards, and
\* stays in the collection until it is fully past the left edge.  Stated over
\* two consecutive PLAYING frames: a cloud the last frame found on the ship
\* in ghost mode is, at its moved position, not scored or removed by this
\* frame and still listed after it unless it has left the screen.
C15_NeverScored ==
    [][(FrameStep /\ log.op = "frame" /\ log.from = "PLAYING") =>
         \A i \in DOMAIN log.hits :
            LET moved == [log.hits[i].cloud EXCEPT !.x = ScrollX(@, ClaimedSpeed)]
            IN  (log.hits[i].ghost /\ log.hits[i].cloud \in Range(clouds)) =>
                   /\ \A j \in DOMAIN log'.hits :
                         log'.hits[j].cloud = moved =>
                            /\ ~log'.hits[j].removed
                            /\ log'.hits[j].after = log'.hits[j].before
                   /\ moved.x + CLOUD_W >= 0 => moved \in Range(clouds')]_vars

\* The moved clouds of a frame that are not fully past the left edge.
InSight(cloud) == cloud.x + CLOUD_W >= 0

\* C15, amended: in a PLAYING frame in which ghost mode is active (the ghost
\* timer is > 0 when the clouds are visited) a cloud that overlaps the player
\* is not scored and not removed by collision, and stays in the collection
\* unless it is fully past the left edge: the frame leaves the score and the
\* difficulty speed of the cloud pass alone, and the collection is the moved
\* clouds minus those past the left edge.
C15_GhostFrame ==
    [][(FrameStep /\ timer_ghost_mode' > 0) =>
         /\ player'.score = player.score
         /\ state' = "PLAYING"
         /\ clouds' = SelectSeq(MovedClouds(ClaimedSpeed), InSight)
         /\ \A i \in DOMAIN log'.hits :
               /\ ~log'.hits[i].removed
               /\ log'.hits[i].after = log'.hits[i].before
               /\ log'.hits[i].cloud \in Range(clouds')]_vars

\* A frame has found a cloud on the ship in ghost mode and the cloud is
\* still listed.
C15_Reached ==
    /\ log.op = "frame"
    /\ log.from = "PLAYING"
    /\ timer_ghost_mode > 0
    /\ \E i \in DOMAIN log.hits :
          /\ log.hits[i].ghost
          /\ log.hits[i].cloud \in Range(clouds)
          /\ log.hits[i].after.score = player.score

\* The clouds a frame has removed on collision, and the power-ups among
\* those the frame began with that are on the ship once moved.
Scored == {log'.hits[i].cloud : i \in {j \in DOMAIN log'.hits : log'.hits[j].removed}}

OnShip(pu) ==
    CollideRect(player'.x, player'.y, PLAYER_W, PLAYER_H,
                pu.x, pu.y, POWERUP_SIZE, POWERUP_SIZE)

Kept(cloud) == cloud \notin Scored /\ cloud.x + CLOUD_W >= 0

KeptPowerUp(pu) == ~OnShip(pu) /\ pu.x + POWERUP_SIZE >= 0

\* C16: in a PLAYING frame every cloud and power-up present when its pass
\* starts is moved and checked exactly once, and nothing is removed twice.
\* The clouds left are, in order, the moved clouds of the snapshot that were
\* neither removed on collision nor past the left edge; each cloud of the
\* snapshot is kept, removed on collision or removed past the edge, and never
\* both of the last two (remove() is never called on a cloud already removed,
\* so the loop never raises); the overlaps logged are of distinct clouds.
\* The power-ups the frame began with are likewise kept in order unless on
\* the ship (collected once each) or past the left edge.  After the frame no
\* cloud with its right edge < 0 is listed.
C16_OncePerFrame ==
    [][FrameStep =>
         /\ ~fault'
         /\ clouds' = SelectSeq(MovedClouds(ClaimedSpeed), Kept)
         /\ Scored \subseteq Range(MovedClouds(ClaimedSpeed))
         /\ \A c \in Scored : c.x + CLOUD_W >= 0
         /\ Range(log'.left) =
               {c \in Range(MovedClouds(ClaimedSpeed)) : c.x + CLOUD_W < 0}
         /\ Range(log'.left) \cap Scored = {}
         /\ Len(clouds') + Cardinality(Scored) + Len(log'.left)
               = Len(clouds) + Len(log'.wall)
         /\ Cardinality({log'.hits[i].cloud : i \in DOMAIN log'.hits})
               = Len(log'.hits)
         /\ SubSeq(powerups', 1, Len(powerups') - Len(log'.spawned))
               = SelectSeq(MovedPowerUps(ClaimedSpeed), KeptPowerUp)
         /\ Len(log'.got) =
               Cardinality({i \in DOMAIN powerups :
                               OnShip(MovedPowerUps(ClaimedSpeed)[i])})
         /\ \A i \in DOMAIN clouds' : clouds'[i].x + CLOUD_W >= 0]_vars

\* A frame has removed a cloud that went past the left edge and kept the
\* clouds behind it.
C16_Reached ==
    /\ log.op = "frame"
    /\ log.from = "PLAYING"
    /\ log.left # << >>
    /\ clouds # << >>
    /\ ~fault

C18_ScoreIsTarget ==
    state \in {"TRANSITION_TO_LANDING", "LANDING_SCENE"} => player.score = 50

\* C19: within a PLAYING frame the timers are decremented first, then the
\* power-ups are resolved, then the clouds.  The first collection of a frame
\* finds the timers already decremented, and every cloud overlap finds the
\* timers as the collections left them.  So a GHOST collected in the frame
\* protects against every cloud on the ship in that frame (none is scored or
\* removed), a RAPID_FIRE collected in the frame keeps the speed from rising
\* on a fractional collision of that frame, and a ghost timer that the
\* frame's decrement takes from 1 to 0 protects against no cloud of the frame.
C19_FrameOrder ==
    [][FrameStep =>
         /\ log'.got # << >> =>
               /\ log'.got[1].before.slow = Tick(timer_slow_motion)
               /\ log'.got[1].before.ghost = Tick(timer_ghost_mode)
               /\ log'.got[1].before.inverted = Tick(timer_inverted)
               /\ log'.got[1].before.rapid = Tick(timer_rapid_fire)
               /\ log'.got[1].before.score = player.score
         /\ \A j \in DOMAIN log'.hits :
               /\ log'.hits[j].before.slow = timer_slow_motion'
               /\ log'.hits[j].before.ghost = timer_ghost_mode'
               /\ log'.hits[j].before.inverted = timer_inverted'
               /\ log'.hits[j].before.rapid = timer_rapid_fire'
         /\ "GHOST" \in GotTypes =>
               /\ player'.score = player.score
               /\ \A j \in DOMAIN log'.hits :
                     /\ ~log'.hits[j].removed
                     /\ log'.hits[j].after = log'.hits[j].before
                     /\ log'.hits[j].cloud \in Range(clouds')
         /\ "RAPID_FIRE" \in GotTypes =>
               \A j \in DOMAIN log'.hits :
                  log'.hits[j].after.speed = log'.hits[j].before.speed
         /\ (timer_ghost_mode = 1 /\ "GHOST" \notin GotTypes) =>
               \A j \in DOMAIN log'.hits :
                  /\ log'.hits[j].removed
                  /\ log'.hits[j].cloud \notin Range(clouds')
                  /\ log'.hits[j].after.score =
                        Calculate(log'.hits[j].before.score, log'.hits[j].cloud.op,
                                  log'.hits[j].cloud.val).score]_vars

\* A frame has collected RAPID_FIRE and then resolved a fractional
\* collision, below the speed cap, without raising the speed.
C19_Reached ==
    /\ log.op = "frame"
    /\ log.from = "PLAYING"
    /\ \E i \in DOMAIN log.got :
          /\ log.got[i].type = "RAPID_FIRE"
          /\ log.got[i].before.rapid = 0
    /\ \E j \in DOMAIN log.hits :
          /\ log.hits[j].penalty
          /\ log.hits[j].removed
          /\ log.hits[j].before.speed < MAX_SPEED * Scale
          /\ log.hits[j].after.speed = log.hits[j].before.speed

\* C20: the difficulty speed is within [5, 18] in every state.  It rises
\* only in a PLAYING frame in which a DIVIDE cloud whose operand does not
\* divide the score of that moment is resolved with ghost mode and rapid
\* fire off.  A collision with an ADD, SUBTRACT or MULTIPLY cloud never
\* returns the penalty flag, in play and for every score and operand of the
\* bounds.
C20_SpeedRange ==
    /\ \A sc \in 0 .. MaxScore : \A v \in 0 .. MaxOperand :
          \A o \in {"ADD", "SUBTRACT", "MULTIPLY"} : ~Calculate(sc, o, v).penalty
    /\ [](/\ current_difficulty_speed >= 5 * Scale
          /\ current_difficulty_speed <= 18 * Scale)
    /\ [][/\ current_difficulty_speed' > current_difficulty_speed =>
                /\ FrameStep
                /\ \E j \in DOMAIN log'.hits :
                      LET h == log'.hits[j]
                      IN  /\ h.after.speed > h.before.speed
                          /\ h.cloud.op = "DIVIDE"
                          /\ h.cloud.val > 0
                          /\ h.before.score % h.cloud.val # 0
                          /\ h.before.ghost = 0
                          /\ h.before.rapid = 0
          /\ FrameStep =>
                \A j \in DOMAIN log'.hits :
                   LET h == log'.hits[j]
                   IN  /\ h.after.speed >= h.before.speed
                       /\ h.after.speed > h.before.speed =>
                             /\ h.cloud.op = "DIVIDE"
                             /\ h.before.score % h.cloud.val # 0
                             /\ h.before.ghost = 0
                             /\ h.before.rapid = 0
                       /\ h.cloud.op # "DIVIDE" => ~h.penalty]_vars

\* A fractional division has raised the speed from 5 to 6.
C20_Reached ==
    /\ log.op = "frame"
    /\ log.from = "PLAYING"
    /\ current_difficulty_speed = 6 * Scale
    /\ \E j \in DOMAIN log.hits :
          /\ log.hits[j].cloud.op = "DIVIDE"
          /\ log.hits[j].penalty
          /\ log.hits[j].before.speed = 5 * Scale
          /\ log.hits[j].after.speed = 6 * Scale

\* C21: during PLAYING the ship's top edge is always > -9 and its bottom
\* edge always < 700 + 9, whatever keys are held from frame to frame and
\* whenever the controls are inverted.  In a frame that starts with the
\* inverted timer > 0, UP alone moves the ship down by 9 (unless its bottom
\* edge is at or past 700) and DOWN alone moves it up by 9 (unless its top
\* edge is at or past 0); in any other frame UP alone moves it up and DOWN
\* alone moves it down, under the same tests.  With no key held the ship
\* stays, and with both held it ends at most one step from where it was.
C21_Vertical ==
    /\ [](state = "PLAYING" => (player.y > -9 /\ player.y + 60 < 700 + 9))
    /\ [][FrameStep =>
            LET up == log'.keys.up
                down == log'.keys.down
                rises == IF player.y > 0 THEN player.y - 9 ELSE player.y
                sinks == IF player.y + 60 < 700 THEN player.y + 9 ELSE player.y
            IN  /\ player'.x = player.x
                /\ (~up /\ ~down) => player'.y = player.y
                /\ (up /\ ~down) =>
                      player'.y = IF timer_inverted > 0 THEN sinks ELSE rises
                /\ (down /\ ~up) =>
                      player'.y = IF timer_inverted > 0 THEN rises ELSE sinks
                /\ (up /\ down) =>
                      player'.y \in {player.y - 9, player.y, player.y + 9}]_vars

\* With the controls inverted, DOWN has taken the ship's top edge past the
\* top of the field.
C21_Reached ==
    /\ state = "PLAYING"
    /\ log.op = "frame"
    /\ log.keys = [up |-> FALSE, down |-> TRUE]
    /\ timer_inverted > 0
    /\ player.y = -1

=============================================================================
